---- MODULE Spec2Model ----
(***************************************************************************)
(* Model of saleor/payment/gateway.py: the six payment operations          *)
(* (process_payment, authorize, capture, refund, void, confirm), their     *)
(* decorators (payment_postprocess, raise_payment_error,                   *)
(* require_active_payment) and the helpers _get_gateway,                   *)
(* _fetch_gateway_response, _get_past_transaction_token and                *)
(* _validate_refund_amound.                                                *)
(*                                                                         *)
(* One Payment is modelled.  Each public call is one action: a call is a   *)
(* single synchronous unit of work.  The variable `call` keeps the         *)
(* observation of the last call: its arguments, the payment before it,     *)
(* the steps it executed in order (trace), and how it ended.  The         *)
(* variable `pending` is used by the second specification, SpecSteps, in  *)
(* which persisting the Transaction and post-processing the Payment are   *)
(* two steps of a call that may be interrupted in between; it holds the   *)
(* call whose Transaction is persisted and not yet post-processed.        *)
(* Decimal amounts are integers (minor units); only comparisons, sums and  *)
(* differences of amounts are used by the code.                            *)
(***************************************************************************)
EXTENDS Integers, Sequences, FiniteSets, TLC

VARIABLES payment, call, pending

vars == <<payment, call, pending>>

\* ---------------------------------------------------------------- bounds
\* Largest total of the payment; amounts passed to capture/refund range
\* over 0 .. MaxTotal + 1 (and "omitted").
MaxTotal == 2
\* Largest number of Transactions persisted for the payment.
MaxTxns == 3

\* ------------------------------------------------------------- constants
ERROR_MSG == "Oops! Something went wrong."
GENERIC_TRANSACTION_ERROR == "Transaction was unsuccessful"
INACTIVE_MSG == "This payment is no longer active."
NO_PAST_TXN_MSG == "Cannot find successful {kind.value} transaction"
NOT_POSITIVE_MSG == "Amount should be a positive number."
REFUND_TOO_MUCH_MSG == "Cannot refund more than captured"
CANNOT_REFUND_MSG == "This payment cannot be refunded."

\* TransactionKind
AUTH == "auth"
CAPTURE == "capture"
REFUND == "refund"
VOID == "void"
CONFIRM == "confirm"
TransactionKind == {AUTH, CAPTURE, REFUND, VOID, CONFIRM}

\* Python's None for string-valued fields, and for optional values
\* (an optional value is <<>> or <<v>>).
NoneStr == "None"
None == <<>>
Some(v) == <<v>>

\* Python truthiness of an optional string (None and "" are falsy).
Truthy(s) == s # NoneStr /\ s # ""

\* ------------------------------------------------------------ data model
\* Gateway identifiers the Gateway enumeration knows; a payment's gateway
\* may also be unset (NoneStr) or unrecognized ("bogus").
KnownGateways == {"dummy"}
GatewayIds == KnownGateways \cup {"bogus", NoneStr}

\* Tokens are numbers.  ClientToken is the token the client passes to
\* process_payment / authorize; a backend issues a token of its own with
\* every response, different from all it issued before for the payment.
ClientToken == 0
IssuedToken(p) == Len(p.transactions) + 1

\* Card metadata of a payment / card_info of a response.
NoCard == "None"
Cards == {"visa"}

\* Amounts a caller may pass (omitted = None).
AmountArgs == {None} \cup {Some(a) : a \in 0 .. MaxTotal + 1}

\* A GatewayResponse as returned by a backend.  well_formed = FALSE stands
\* for a response that validate_gateway_response rejects.
MalformedResponse ==
  [well_formed |-> FALSE, is_success |-> FALSE, token |-> ClientToken,
   error |-> NoneStr, card_info |-> NoCard]
\* Well-formed responses carrying token tok: successful ones, and
\* unsuccessful ones without error detail, with an empty one, or with one.
ValidResponses(tok) ==
  [well_formed : {TRUE}, is_success : {TRUE}, token : {tok},
   error : {NoneStr}, card_info : {NoCard} \cup Cards]
  \cup
  [well_formed : {TRUE}, is_success : {FALSE}, token : {tok},
   error : {NoneStr, "", "declined"}, card_info : {NoCard} \cup Cards]
\* What one backend invocation does: raise, or return a response.
BackendOutcomes(tok) ==
  {[raises |-> TRUE, response |-> MalformedResponse]}
    \cup {[raises |-> FALSE, response |-> r] :
            r \in ValidResponses(tok) \cup {MalformedResponse}}

\* What the Gateway(...) constructor raises for a value it does not know
\* (nothing, "none", for one it knows).
GatewayCtorErrors(p) ==
  IF p.gateway \in KnownGateways THEN {"none"}
  ELSE {"ValueError", "AttributeError"}

\* ------------------------------------------------ results of a (sub)call
\* A call in progress / finished: the payment as mutated so far, whether
\* an exception is propagating and which, the Transaction returned (an
\* optional) and the one created (produced), the steps executed so far,
\* the token handed to the backend, and what the backend did ("none": it
\* was not invoked; "raised"; "malformed"; "valid", with the response).
NoExc == [type |-> "none", msg |-> ""]
Exc(type, msg) == [type |-> type, msg |-> msg]

Start(p) ==
  [payment |-> p, raised |-> FALSE, exc |-> NoExc, txn |-> None,
   produced |-> None, trace |-> <<>>, sent_token |-> None,
   backend |-> "none", response |-> None]

Step(R, name) == [R EXCEPT !.trace = Append(@, name)]

\* An exception leaves step `name`: nothing is returned to the caller.
Raise(R, name, type, msg) ==
  [R EXCEPT !.raised = TRUE, !.exc = Exc(type, msg), !.txn = None,
            !.trace = Append(@, name)]

\* ------------------------------------- collaborators outside gateway.py
\* Payment.get_charge_amount(): the payment's full charge amount.
get_charge_amount(p) == p.total

\* Payment.can_refund(): an active payment with something captured.
can_refund(p) == p.is_active /\ p.captured_amount > 0

\* clean_authorize(payment): a charged payment cannot be authorized again.
clean_authorize_ok(p) == p.is_active /\ p.captured_amount = 0

\* clean_capture(payment, amount): the amount is positive and does not
\* exceed what is left un-captured of the payment's total.
clean_capture_error(p, amount) ==
  IF amount <= 0 THEN NOT_POSITIVE_MSG
  ELSE IF amount > p.total \/ amount > p.total - p.captured_amount
       THEN "Unable to charge more than un-captured amount."
       ELSE NoneStr

\* create_payment_information(payment, payment_token, amount): the
\* request-scoped snapshot; the amount defaults to the payment's total.
create_payment_information(p, payment_token, amount) ==
  [token |-> payment_token,
   amount |-> IF amount = None THEN p.total ELSE amount[1]]

\* validate_gateway_response(response): raises GatewayError for a
\* response that is not well-formed.
validate_gateway_response_ok(response) == response.well_formed

\* update_card_details(payment, response): the payment takes the card
\* metadata of the response.
update_card_details(p, response) == [p EXCEPT !.card = response.card_info]

\* create_transaction(payment, kind, payment_information, error_msg,
\* gateway_response): builds and persists the Transaction.
\* is_success = (error is None and response.success).
NewTransaction(kind, payment_information, error_msg, gateway_response) ==
  IF gateway_response = None
  THEN [kind |-> kind, is_success |-> FALSE,
        token |-> payment_information.token,
        amount |-> payment_information.amount, error |-> error_msg]
  ELSE [kind |-> kind,
        is_success |-> (error_msg = NoneStr /\ gateway_response[1].is_success),
        token |-> gateway_response[1].token,
        amount |-> payment_information.amount,
        error |-> IF error_msg # NoneStr THEN error_msg
                  ELSE gateway_response[1].error]

create_transaction(R, kind, payment_information, error_msg, gateway_response) ==
  LET txn == NewTransaction(kind, payment_information, error_msg,
                            gateway_response)
  IN [R EXCEPT !.payment.transactions = Append(@, txn),
               !.txn = Some(txn), !.produced = Some(txn),
               !.trace = Append(@, "create_transaction")]

\* gateway_postprocess(transaction, payment): nothing for an unsuccessful
\* transaction; a successful CAPTURE adds its amount to captured_amount, a
\* successful REFUND takes its amount off it, a successful VOID ends the
\* payment (NONE -> AUTH -> CAPTURED -> REFUNDED/VOIDED).
gateway_postprocess(txn, p) ==
  IF ~txn.is_success THEN p
  ELSE IF txn.kind = CAPTURE
       THEN [p EXCEPT !.captured_amount = @ + txn.amount]
  ELSE IF txn.kind = REFUND
       THEN [p EXCEPT !.captured_amount = @ - txn.amount]
  ELSE IF txn.kind = VOID
       THEN [p EXCEPT !.is_active = FALSE]
  ELSE p

\* ------------------------------------------------ gateway.py: decorators
\* raise_payment_error returning every result.
raise_payment_error_never(R) == R

\* raise_payment_error: the wrapped call's exception propagates; an
\* unsuccessful result raises PaymentError(result.error or GENERIC...).
raise_payment_error(R) ==
  IF R.raised THEN R
  ELSE IF ~R.txn[1].is_success
       THEN Raise(R, "raise_payment_error", "PaymentError",
                  IF Truthy(R.txn[1].error) THEN R.txn[1].error
                  ELSE GENERIC_TRANSACTION_ERROR)
       ELSE R

\* payment_postprocess: runs gateway_postprocess on the Transaction the
\* wrapped call returned; an exception of the wrapped call propagates
\* past it.
payment_postprocess(R) ==
  IF R.raised THEN R
  ELSE [R EXCEPT !.payment = gateway_postprocess(R.txn[1], R.payment),
                 !.trace = Append(@, "gateway_postprocess")]

\* require_active_payment checking after the wrapped function has run.
require_active_payment_late(p, inner) ==
  IF ~p.is_active
  THEN Raise(inner, "require_active_payment", "PaymentError", INACTIVE_MSG)
  ELSE inner

\* require_active_payment without its check.
require_active_payment_unchecked(p, inner) == inner

\* require_active_payment: `inner` is the wrapped function's outcome,
\* used only when the payment is active.
require_active_payment(p, inner) ==
  IF ~p.is_active
  THEN Raise(Start(p), "require_active_payment", "PaymentError", INACTIVE_MSG)
  ELSE inner

\* The call state on entry of a wrapped function.
Entered(p) == Step(Start(p), "require_active_payment")

\* -------------------------------------------------- gateway.py: helpers
\* _get_gateway (the exception it raises, "none" when it returns a
\* gateway): Gateway(payment.gateway); the handler of AttributeError
\* formats a message with `gateway`, which is unbound there, so entering
\* it raises UnboundLocalError; any other exception of the constructor
\* propagates.  `ctor_error` is what the constructor raises for a value
\* it does not know.
_get_gateway(p, ctor_error) ==
  IF p.gateway \in KnownGateways THEN "none"
  ELSE IF ctor_error = "AttributeError" THEN "UnboundLocalError"
  ELSE ctor_error

\* _fetch_gateway_response: (response, error) of one backend invocation.
_fetch_gateway_response(be) ==
  IF be.raises
  THEN [response |-> None, error |-> ERROR_MSG]
  ELSE IF ~validate_gateway_response_ok(be.response)
       THEN [response |-> None, error |-> ERROR_MSG]
       ELSE [response |-> Some(be.response), error |-> NoneStr]

\* The filter with is_success=False.
FailedOfKind(p, kind) ==
  {i \in 1 .. Len(p.transactions) :
     p.transactions[i].kind = kind /\ ~p.transactions[i].is_success}

\* The filter without is_success=True.
OfKind(p, kind) ==
  {i \in 1 .. Len(p.transactions) : p.transactions[i].kind = kind}

\* payment.transactions.filter(kind=kind, is_success=True): the indices,
\* in creation order.
SuccessfulOfKind(p, kind) ==
  {i \in 1 .. Len(p.transactions) :
     p.transactions[i].kind = kind /\ p.transactions[i].is_success}

\* _get_past_transaction_token: the token of .first() of that filter (the
\* first in creation order), None when there is none (PaymentError).
_get_past_transaction_token(p, kind) ==
  LET found == SuccessfulOfKind(p, kind)
  IN IF found = {} THEN None
     ELSE Some(p.transactions[CHOOSE i \in found :
                                 \A j \in found : i <= j].token)

\* _validate_refund_amound without the check against captured_amount,
\* and with >= for > in it.
validate_refund_amound_unbounded(p, amount) ==
  IF amount <= 0 THEN NOT_POSITIVE_MSG ELSE NoneStr

validate_refund_amound_strict(p, amount) ==
  IF amount <= 0 THEN NOT_POSITIVE_MSG
  ELSE IF amount >= p.captured_amount THEN REFUND_TOO_MUCH_MSG
  ELSE NoneStr

\* _validate_refund_amound: the PaymentError message, NoneStr when the
\* amount passes.
_validate_refund_amound(p, amount) ==
  IF amount <= 0 THEN NOT_POSITIVE_MSG
  ELSE IF amount > p.captured_amount THEN REFUND_TOO_MUCH_MSG
  ELSE NoneStr

\* The call state once fn(*args) of _fetch_gateway_response has been
\* entered: the backend has been invoked with payment_data.
Invoked(R, payment_data, be) ==
  [R EXCEPT !.trace = Append(@, "backend"),
            !.sent_token = Some(payment_data.token),
            !.backend = IF be.raises THEN "raised"
                        ELSE IF ~be.response.well_formed THEN "malformed"
                        ELSE "valid",
            !.response = IF ~be.raises /\ be.response.well_formed
                         THEN Some(be.response) ELSE None]

\* ------------------------------------- gateway.py: the wrapped functions
\* Each takes the payment, the call's arguments, what the Gateway
\* constructor raises for an unknown value (ctor_error) and what the
\* backend does when invoked (be).
process_payment_fn(p, token, ctor_error, be) ==
  LET gw == _get_gateway(p, ctor_error)
      R0 == Entered(p)
  IN IF gw # "none" THEN Raise(R0, "_get_gateway", gw, "")
     ELSE LET payment_data == create_payment_information(p, token, None)
              fr == _fetch_gateway_response(be)
              R1 == Invoked(Step(R0, "_get_gateway"), payment_data, be)
          IN create_transaction(R1, CAPTURE, payment_data, fr.error,
                                fr.response)

authorize_fn(p, token, ctor_error, be) ==
  LET gw == _get_gateway(p, ctor_error)
      R0 == Entered(p)
  IN IF ~clean_authorize_ok(p)
     THEN Raise(R0, "clean_authorize", "PaymentError",
                "Charged transactions cannot be authorized again.")
     ELSE IF gw # "none"
     THEN Raise(Step(R0, "clean_authorize"), "_get_gateway", gw, "")
     ELSE LET payment_data == create_payment_information(p, token, None)
              fr == _fetch_gateway_response(be)
              R1 == Invoked(Step(Step(R0, "clean_authorize"),
                                 "_get_gateway"), payment_data, be)
          IN create_transaction(R1, AUTH, payment_data, fr.error,
                                fr.response)

capture_fn(p, amount_arg, ctor_error, be) ==
  LET amount == IF amount_arg = None THEN get_charge_amount(p)
                ELSE amount_arg[1]
      cc == clean_capture_error(p, amount)
      gw == _get_gateway(p, ctor_error)
      token == _get_past_transaction_token(p, AUTH)
      R0 == Entered(p)
      Rc == Step(R0, "clean_capture")
      Rg == Step(Rc, "_get_gateway")
  IN IF cc # NoneStr THEN Raise(R0, "clean_capture", "PaymentError", cc)
     ELSE IF gw # "none" THEN Raise(Rc, "_get_gateway", gw, "")
     ELSE IF token = None
     THEN Raise(Rg, "_get_past_transaction_token", "PaymentError",
                NO_PAST_TXN_MSG)
     ELSE LET payment_data ==
                create_payment_information(p, token[1], Some(amount))
              fr == _fetch_gateway_response(be)
              R1 == Invoked(Step(Rg, "_get_past_transaction_token"),
                            payment_data, be)
          IN \* if response.card_info: with response = None the attribute
             \* read raises AttributeError
             IF fr.response = None
             THEN Raise(R1, "response.card_info", "AttributeError",
                        "'NoneType' object has no attribute 'card_info'")
             ELSE LET R2 == IF fr.response[1].card_info # NoCard
                            THEN [Step(R1, "update_card_details") EXCEPT
                                    !.payment =
                                      update_card_details(@, fr.response[1])]
                            ELSE R1
                  IN create_transaction(R2, CAPTURE, payment_data, fr.error,
                                        fr.response)

refund_fn(p, amount_arg, ctor_error, be) ==
  LET amount == IF amount_arg = None THEN p.captured_amount
                ELSE amount_arg[1]
      va == _validate_refund_amound(p, amount)
      gw == _get_gateway(p, ctor_error)
      token == _get_past_transaction_token(p, CAPTURE)
      R0 == Entered(p)
      Rv == Step(R0, "_validate_refund_amound")
      Rr == Step(Rv, "can_refund")
      Rg == Step(Rr, "_get_gateway")
  IN IF va # NoneStr
     THEN Raise(R0, "_validate_refund_amound", "PaymentError", va)
     ELSE IF ~can_refund(p)
     THEN Raise(Rv, "can_refund", "PaymentError", CANNOT_REFUND_MSG)
     ELSE IF gw # "none" THEN Raise(Rr, "_get_gateway", gw, "")
     ELSE IF token = None
     THEN Raise(Rg, "_get_past_transaction_token", "PaymentError",
                NO_PAST_TXN_MSG)
     ELSE LET payment_data ==
                create_payment_information(p, token[1], Some(amount))
              fr == _fetch_gateway_response(be)
              R1 == Invoked(Step(Rg, "_get_past_transaction_token"),
                            payment_data, be)
          IN create_transaction(R1, REFUND, payment_data, fr.error,
                                fr.response)

\* void and confirm differ in the transaction kind only.
void_fn(p, ctor_error, be) ==
  LET gw == _get_gateway(p, ctor_error)
      token == _get_past_transaction_token(p, AUTH)
      R0 == Entered(p)
      Rg == Step(R0, "_get_gateway")
  IN IF gw # "none" THEN Raise(R0, "_get_gateway", gw, "")
     ELSE IF token = None
     THEN Raise(Rg, "_get_past_transaction_token", "PaymentError",
                NO_PAST_TXN_MSG)
     ELSE LET payment_data == create_payment_information(p, token[1], None)
              fr == _fetch_gateway_response(be)
              R1 == Invoked(Step(Rg, "_get_past_transaction_token"),
                            payment_data, be)
          IN create_transaction(R1, VOID, payment_data, fr.error,
                                fr.response)

\* confirm recording what void records.
confirm_fn_as_void(p, ctor_error, be) == void_fn(p, ctor_error, be)

confirm_fn(p, ctor_error, be) ==
  LET gw == _get_gateway(p, ctor_error)
      token == _get_past_transaction_token(p, AUTH)
      R0 == Entered(p)
      Rg == Step(R0, "_get_gateway")
  IN IF gw # "none" THEN Raise(R0, "_get_gateway", gw, "")
     ELSE IF token = None
     THEN Raise(Rg, "_get_past_transaction_token", "PaymentError",
                NO_PAST_TXN_MSG)
     ELSE LET payment_data == create_payment_information(p, token[1], None)
              fr == _fetch_gateway_response(be)
              R1 == Invoked(Step(Rg, "_get_past_transaction_token"),
                            payment_data, be)
          IN create_transaction(R1, CONFIRM, payment_data, fr.error,
                                fr.response)

\* ------------------------------------ gateway.py: the public operations
\* @payment_postprocess @raise_payment_error @require_active_payment:
\* X_inner is what payment_postprocess wraps, X the decorated operation.
process_payment_inner(p, token, ctor_error, be) ==
  raise_payment_error(require_active_payment(p,
    process_payment_fn(p, token, ctor_error, be)))

process_payment(p, token, ctor_error, be) ==
  payment_postprocess(process_payment_inner(p, token, ctor_error, be))

authorize_inner(p, token, ctor_error, be) ==
  raise_payment_error(require_active_payment(p,
    authorize_fn(p, token, ctor_error, be)))

authorize(p, token, ctor_error, be) ==
  payment_postprocess(authorize_inner(p, token, ctor_error, be))

capture_inner(p, amount_arg, ctor_error, be) ==
  raise_payment_error(require_active_payment(p,
    capture_fn(p, amount_arg, ctor_error, be)))

capture(p, amount_arg, ctor_error, be) ==
  payment_postprocess(capture_inner(p, amount_arg, ctor_error, be))

refund_inner(p, amount_arg, ctor_error, be) ==
  raise_payment_error(require_active_payment(p,
    refund_fn(p, amount_arg, ctor_error, be)))

refund(p, amount_arg, ctor_error, be) ==
  payment_postprocess(refund_inner(p, amount_arg, ctor_error, be))

void_inner(p, ctor_error, be) ==
  raise_payment_error(require_active_payment(p,
    void_fn(p, ctor_error, be)))

void(p, ctor_error, be) ==
  payment_postprocess(void_inner(p, ctor_error, be))

confirm_inner(p, ctor_error, be) ==
  raise_payment_error(require_active_payment(p,
    confirm_fn(p, ctor_error, be)))

confirm(p, ctor_error, be) ==
  payment_postprocess(confirm_inner(p, ctor_error, be))

\* ---------------------------------- gateway.py: the read-only operations
\* A direct call of the plugin manager (not through
\* _fetch_gateway_response): what it raises propagates to the caller.
PluginCall(R, name, raises) ==
  IF raises
  THEN Raise([R EXCEPT !.backend = "raised"], name, "Exception", "")
  ELSE [Step(R, name) EXCEPT !.backend = "valid"]

\* @require_active_payment
create_payment_form_fn(p, ctor_error, raises) ==
  LET gw == _get_gateway(p, ctor_error)
      R0 == Entered(p)
  IN IF gw # "none" THEN Raise(R0, "_get_gateway", gw, "")
     ELSE PluginCall(Step(R0, "_get_gateway"),
                     "plugin_manager.create_payment_form", raises)

create_payment_form(p, ctor_error, raises) ==
  require_active_payment(p, create_payment_form_fn(p, ctor_error, raises))

get_client_token_fn(p, ctor_error, raises) ==
  LET gw == _get_gateway(p, ctor_error)
      R0 == Start(p)
  IN IF gw # "none" THEN Raise(R0, "_get_gateway", gw, "")
     ELSE PluginCall(Step(R0, "_get_gateway"),
                     "plugin_manager.get_client_token", raises)

\* get_client_token decorated with require_active_payment.
get_client_token_guarded(p, ctor_error, raises) ==
  require_active_payment(p, get_client_token_fn(p, ctor_error, raises))

\* get_client_token has no decorator.
get_client_token(p, ctor_error, raises) ==
  get_client_token_fn(p, ctor_error, raises)

\* list_payment_sources(gateway, customer_id) and list_gateways() take no
\* payment; p is the payment of the model, which they do not read.
list_payment_sources(p, raises) ==
  PluginCall(Start(p), "plugin_manager.list_payment_sources", raises)

list_gateways(p, raises) ==
  PluginCall(Start(p), "plugin_manager.list_payment_gateways", raises)

\* ------------------------------------------------------- state machine
\* The payment exists before any call: active or not, with a gateway
\* identifier that may be unset or unrecognized, nothing captured and no
\* transactions.
NoCall ==
  [op |-> "none", amount |-> None,
   before |-> [is_active |-> TRUE, gateway |-> "dummy", total |-> 1,
               captured_amount |-> 0, card |-> NoCard,
               transactions |-> <<>>],
   result |-> Start([is_active |-> TRUE, gateway |-> "dummy", total |-> 1,
                     captured_amount |-> 0, card |-> NoCard,
                     transactions |-> <<>>])]

Init ==
  /\ payment \in [is_active : BOOLEAN, gateway : GatewayIds,
                  total : 1 .. MaxTotal, captured_amount : {0},
                  card : {NoCard}, transactions : {<<>>}]
  /\ call = NoCall
  /\ pending = None

\* A call `op` with amount argument `amount` and backend behaviour `be`
\* ended as R: the payment is what the call left, the observation is kept.
Finish(op, amount, R) ==
  /\ payment' = R.payment
  /\ call' = [op |-> op, amount |-> amount, before |-> payment,
              result |-> R]
  /\ pending' = pending

\* Calls are made while fewer than MaxTxns transactions are persisted.
CanCall == Len(payment.transactions) < MaxTxns

ProcessPayment ==
  /\ CanCall
  /\ \E ce \in GatewayCtorErrors(payment),
        be \in BackendOutcomes(IssuedToken(payment)) :
       Finish("process_payment", None,
              process_payment(payment, ClientToken, ce, be))

Authorize ==
  /\ CanCall
  /\ \E ce \in GatewayCtorErrors(payment),
        be \in BackendOutcomes(IssuedToken(payment)) :
       Finish("authorize", None, authorize(payment, ClientToken, ce, be))

Capture ==
  /\ CanCall
  /\ \E amount \in AmountArgs, ce \in GatewayCtorErrors(payment),
        be \in BackendOutcomes(IssuedToken(payment)) :
       Finish("capture", amount, capture(payment, amount, ce, be))

Refund ==
  /\ CanCall
  /\ \E amount \in AmountArgs, ce \in GatewayCtorErrors(payment),
        be \in BackendOutcomes(IssuedToken(payment)) :
       Finish("refund", amount, refund(payment, amount, ce, be))

Void ==
  /\ CanCall
  /\ \E ce \in GatewayCtorErrors(payment),
        be \in BackendOutcomes(IssuedToken(payment)) :
       Finish("void", None, void(payment, ce, be))

Confirm ==
  /\ CanCall
  /\ \E ce \in GatewayCtorErrors(payment),
        be \in BackendOutcomes(IssuedToken(payment)) :
       Finish("confirm", None, confirm(payment, ce, be))

CreatePaymentForm ==
  /\ CanCall
  /\ \E ce \in GatewayCtorErrors(payment), raises \in BOOLEAN :
       Finish("create_payment_form", None,
              create_payment_form(payment, ce, raises))

GetClientToken ==
  /\ CanCall
  /\ \E ce \in GatewayCtorErrors(payment), raises \in BOOLEAN :
       Finish("get_client_token", None,
              get_client_token(payment, ce, raises))

ListPaymentSources ==
  /\ CanCall
  /\ \E raises \in BOOLEAN :
       Finish("list_payment_sources", None,
              list_payment_sources(payment, raises))

ListGateways ==
  /\ CanCall
  /\ \E raises \in BOOLEAN :
       Finish("list_gateways", None, list_gateways(payment, raises))

Next ==
  \/ ProcessPayment
  \/ Authorize
  \/ Capture
  \/ Refund
  \/ Void
  \/ Confirm
  \/ CreatePaymentForm
  \/ GetClientToken
  \/ ListPaymentSources
  \/ ListGateways

Spec == Init /\ [][Next]_vars

\* ----------------------------------------- the operations step by step
\* The wrapped call of payment_postprocess (line 39) has ended as R, with
\* the Transaction persisted by create_transaction: if it raised, the
\* call is over; if not, gateway_postprocess (line 40) is still to run.
Persisted(op, amount, R) ==
  /\ pending = None
  /\ payment' = R.payment
  /\ IF R.raised
     THEN /\ call' = [op |-> op, amount |-> amount, before |-> payment,
                      result |-> R]
          /\ pending' = None
     ELSE /\ call' = call
          /\ pending' = Some([op |-> op, amount |-> amount,
                              before |-> payment, result |-> R])

BeginProcessPayment ==
  /\ CanCall
  /\ \E ce \in GatewayCtorErrors(payment),
        be \in BackendOutcomes(IssuedToken(payment)) :
       Persisted("process_payment", None,
                 process_payment_inner(payment, ClientToken, ce, be))

BeginAuthorize ==
  /\ CanCall
  /\ \E ce \in GatewayCtorErrors(payment),
        be \in BackendOutcomes(IssuedToken(payment)) :
       Persisted("authorize", None,
                 authorize_inner(payment, ClientToken, ce, be))

BeginCapture ==
  /\ CanCall
  /\ \E amount \in AmountArgs, ce \in GatewayCtorErrors(payment),
        be \in BackendOutcomes(IssuedToken(payment)) :
       Persisted("capture", amount, capture_inner(payment, amount, ce, be))

BeginRefund ==
  /\ CanCall
  /\ \E amount \in AmountArgs, ce \in GatewayCtorErrors(payment),
        be \in BackendOutcomes(IssuedToken(payment)) :
       Persisted("refund", amount, refund_inner(payment, amount, ce, be))

BeginVoid ==
  /\ CanCall
  /\ \E ce \in GatewayCtorErrors(payment),
        be \in BackendOutcomes(IssuedToken(payment)) :
       Persisted("void", None, void_inner(payment, ce, be))

BeginConfirm ==
  /\ CanCall
  /\ \E ce \in GatewayCtorErrors(payment),
        be \in BackendOutcomes(IssuedToken(payment)) :
       Persisted("confirm", None, confirm_inner(payment, ce, be))

\* gateway_postprocess(txn, txn.payment) of the pending call runs and the
\* call returns.
Postprocess ==
  /\ pending # None
  /\ LET R == payment_postprocess(pending[1].result)
     IN /\ payment' = R.payment
        /\ call' = [pending[1] EXCEPT !.result = R]
  /\ pending' = None

\* The pending call is interrupted (the process dies) before
\* gateway_postprocess has run: what is persisted stays.
Interrupt ==
  /\ pending # None
  /\ payment' = payment
  /\ call' = [pending[1] EXCEPT
               !.result = Raise(@, "interrupted", "Interrupted", "")]
  /\ pending' = None

NextSteps ==
  \/ BeginProcessPayment
  \/ BeginAuthorize
  \/ BeginCapture
  \/ BeginRefund
  \/ BeginVoid
  \/ BeginConfirm
  \/ Postprocess
  \/ Interrupt

SpecSteps == Init /\ [][NextSteps]_vars

TypeOK ==
  /\ payment.is_active \in BOOLEAN
  /\ payment.captured_amount \in Int
  /\ Len(payment.transactions) <= MaxTxns

\* ------------------------------------------------ observing the last call
Ops == {"process_payment", "authorize", "capture", "refund", "void",
        "confirm"}
Called == call.op \in Ops
\* The kind of Transaction each operation records.
KindOf(op) ==
  CASE op = "process_payment" -> CAPTURE
    [] op = "authorize" -> AUTH
    [] op = "capture" -> CAPTURE
    [] op = "refund" -> REFUND
    [] op = "void" -> VOID
    [] op = "confirm" -> CONFIRM
    [] OTHER -> "none"
\* The steps that are guards.
GuardSteps ==
  {"require_active_payment", "clean_authorize", "clean_capture",
   "_validate_refund_amound", "can_refund", "_get_gateway",
   "_get_past_transaction_token"}
\* The guards each operation has.
GuardsOf(op) ==
  CASE op = "process_payment" -> {"require_active_payment", "_get_gateway"}
    [] op = "authorize" ->
         {"require_active_payment", "clean_authorize", "_get_gateway"}
    [] op = "capture" ->
         {"require_active_payment", "clean_capture", "_get_gateway",
          "_get_past_transaction_token"}
    [] op = "refund" ->
         {"require_active_payment", "_validate_refund_amound", "can_refund",
          "_get_gateway", "_get_past_transaction_token"}
    [] OTHER ->
         {"require_active_payment", "_get_gateway",
          "_get_past_transaction_token"}
BackendInvoked == call.result.backend # "none"
BackendFailed == call.result.backend \in {"raised", "malformed"}
\* The last call ended at a guard.
GuardFailed ==
  /\ call.result.raised
  /\ call.result.trace[Len(call.result.trace)] \in GuardSteps
\* The transactions the last call appended.
Appended ==
  SubSeq(payment.transactions, Len(call.before.transactions) + 1,
         Len(payment.transactions))
NothingAppended == payment.transactions = call.before.transactions
\* The payment has a transaction of that kind with is_success = true.
HasSuccessful(p, kind) ==
  \E i \in 1 .. Len(p.transactions) :
    p.transactions[i].kind = kind /\ p.transactions[i].is_success
HasFailed(p, kind) ==
  \E i \in 1 .. Len(p.transactions) :
    p.transactions[i].kind = kind /\ ~p.transactions[i].is_success
\* The exceptions a failed gateway resolution ends a call with.
GatewayResolutionErrors == {"ValueError", "UnboundLocalError"}

\* ----------------------------------------------------------------- C1
\* C1: every call that passes its guards and invokes the backend appends
\* exactly one Transaction to the payment, whatever the backend did
\* (valid response, malformed response, exception).
C1_OneTransactionPerBackendCall ==
  (Called /\ BackendInvoked) => Len(Appended) = 1

\* ----------------------------------------------------------------- C2
\* C2: when the backend raises or its response fails validation, a
\* Transaction of the operation's kind with is_success = false and
\* error = ERROR_MSG is persisted, and the call raises PaymentError with
\* that same message.
C2_GatewayFailureRecordedAndRaised ==
  (Called /\ BackendFailed) =>
    /\ Len(Appended) = 1
    /\ Appended[1].kind = KindOf(call.op)
    /\ ~Appended[1].is_success
    /\ Appended[1].error = ERROR_MSG
    /\ call.result.raised
    /\ call.result.exc = Exc("PaymentError", ERROR_MSG)

\* ----------------------------------------------------------------- C3
\* C3: on a payment with is_active = false each of the six operations
\* fails with the inactive-payment PaymentError, whatever its arguments
\* and the payment's history, and no Transaction is created (the backend
\* is not invoked, the payment is left as it was).
C3_InactivePaymentRejected ==
  (Called /\ ~call.before.is_active) =>
    /\ call.result.raised
    /\ call.result.exc = Exc("PaymentError", INACTIVE_MSG)
    /\ ~BackendInvoked
    /\ call.result.produced = None
    /\ payment = call.before

\* An inactive payment with a transaction history had void called on it.
C3_Witness ==
  /\ call.op = "void"
  /\ ~call.before.is_active
  /\ HasSuccessful(call.before, AUTH)
  /\ call.result.exc = Exc("PaymentError", INACTIVE_MSG)

\* ----------------------------------------------------------------- C4
\* The kind of prior successful transaction an operation needs.
NeededKind(op) == IF op = "refund" THEN CAPTURE ELSE AUTH
NeedsPrior == call.op \in {"capture", "void", "confirm", "refund"}

\* C4 as stated: the backend is invoked for capture, void or confirm only
\* if the payment has a successful AUTH, for refund only if it has a
\* successful CAPTURE; without one the call fails with PaymentError and
\* creates no Transaction.
C4_Original ==
  NeedsPrior =>
    /\ BackendInvoked => HasSuccessful(call.before, NeededKind(call.op))
    /\ ~HasSuccessful(call.before, NeededKind(call.op)) =>
         /\ call.result.raised
         /\ call.result.exc.type = "PaymentError"
         /\ NothingAppended

\* C4 (amended): as above, but without the needed transaction the call
\* fails with PaymentError or, when the payment's gateway identifier cannot
\* be resolved (_get_gateway runs before the lookup), with the exception of
\* the gateway resolution; in both cases no Transaction is created.
C4_PriorTransactionRequired ==
  NeedsPrior =>
    /\ BackendInvoked => HasSuccessful(call.before, NeededKind(call.op))
    /\ ~HasSuccessful(call.before, NeededKind(call.op)) =>
         /\ call.result.raised
         /\ \/ call.result.exc.type = "PaymentError"
            \/ /\ call.result.exc.type \in GatewayResolutionErrors
               /\ call.before.gateway \notin KnownGateways
         /\ ~BackendInvoked
         /\ NothingAppended

\* capture was called on a payment whose only AUTH transactions failed,
\* and ended at the lookup.
C4_Witness ==
  /\ call.op = "capture"
  /\ HasFailed(call.before, AUTH)
  /\ ~HasSuccessful(call.before, AUTH)
  /\ call.result.exc = Exc("PaymentError", NO_PAST_TXN_MSG)

\* ----------------------------------------------------------------- C5
\* The amount a refund call is about: the explicit one, or captured_amount.
RefundAmount ==
  IF call.amount = None THEN call.before.captured_amount ELSE call.amount[1]
RefundAllowed ==
  /\ 0 < RefundAmount
  /\ RefundAmount <= call.before.captured_amount
  /\ can_refund(call.before)

C6_UnsuccessfulRaises ==
  Called =>
    /\ ~call.result.raised =>
         /\ call.result.txn # None
         /\ call.result.txn[1].is_success
         /\ call.result.txn = call.result.produced
    /\ (call.result.produced # None /\ ~call.result.produced[1].is_success) =>
         /\ call.result.raised
         /\ call.result.txn = None
         /\ call.result.exc.type = "PaymentError"
         /\ call.result.exc.msg =
              IF call.result.produced[1].error \in {NoneStr, ""}
              THEN GENERIC_TRANSACTION_ERROR
              ELSE call.result.produced[1].error

\* The backend answered success = false without error detail: the call
\* raised the generic message.
C6_Witness ==
  /\ Called
  /\ call.result.produced # None
  /\ ~call.result.produced[1].is_success
  /\ call.result.produced[1].error = NoneStr
  /\ call.result.exc = Exc("PaymentError", GENERIC_TRANSACTION_ERROR)

\* ----------------------------------------------------------------- C7
\* C7: whenever a Transaction is produced, gateway_postprocess is executed
\* on it, with is_success = true and with is_success = false alike.
C7_PostprocessAlwaysRuns ==
  (Called /\ call.result.produced # None) =>
    \E i \in 1 .. Len(call.result.trace) :
      call.result.trace[i] = "gateway_postprocess"

\* ----------------------------------------------------------------- C8
\* C8: captured_amount never exceeds the payment's total.
C8_CapturedWithinTotal == payment.captured_amount <= payment.total

\* ----------------------------------------------------------------- C9
\* C9: in every operation all of its guards complete before the backend
\* is invoked and none runs after it; when a guard fails the backend is
\* not invoked and the payment's captured_amount, card metadata and
\* transactions are left as they were.
C9_GuardsBeforeBackend ==
  Called =>
    /\ \A i \in 1 .. Len(call.result.trace) :
         call.result.trace[i] = "backend" =>
           /\ \A g \in GuardsOf(call.op) :
                \E j \in 1 .. i - 1 : call.result.trace[j] = g
           /\ \A j \in i + 1 .. Len(call.result.trace) :
                call.result.trace[j] \notin GuardSteps
    /\ GuardFailed =>
         /\ ~BackendInvoked
         /\ call.result.produced = None
         /\ payment.captured_amount = call.before.captured_amount
         /\ payment.card = call.before.card
         /\ payment.transactions = call.before.transactions
         /\ payment = call.before

\* capture was rejected by clean_capture on a payment that already has a
\* captured amount, card metadata and transactions.
C9_Witness ==
  /\ call.op = "capture"
  /\ GuardFailed
  /\ call.result.trace[Len(call.result.trace)] = "clean_capture"
  /\ call.before.captured_amount > 0
  /\ call.before.card # NoCard
  /\ HasSuccessful(call.before, AUTH)

\* ---------------------------------------------------------------- C10
\* The last call is a successful capture on a payment that had nothing
\* captured (it was active and had a successful AUTH, or capture would
\* have been rejected).
CapturedFromZero ==
  /\ call.op = "capture"
  /\ ~call.result.raised
  /\ call.before.captured_amount = 0

\* C10: a successful capture of amount a on an active payment with
\* captured_amount = 0 and a successful AUTH leaves captured_amount = a;
\* a refund of a (explicit, or omitted) right after it passes every guard
\* and, the backend answering successfully, returns a successful REFUND
\* Transaction.
C10_CaptureRefundRoundTrip ==
  /\ [](CapturedFromZero =>
          /\ call.before.is_active
          /\ HasSuccessful(call.before, AUTH)
          /\ call.result.txn[1].amount =
               (IF call.amount = None THEN call.before.total
                ELSE call.amount[1])
          /\ payment.captured_amount = call.result.txn[1].amount)
  /\ [][(/\ CapturedFromZero
         /\ call'.op = "refund"
         /\ call'.amount \in {None, Some(payment.captured_amount)})
        => /\ call'.result.backend # "none"
           /\ call'.result.sent_token # None
           /\ (/\ call'.result.response # None
               /\ call'.result.response[1].is_success)
              => /\ ~call'.result.raised
                 /\ call'.result.txn # None
                 /\ call'.result.txn[1].kind = REFUND
                 /\ call'.result.txn[1].is_success
                 /\ call'.result.txn[1].amount = payment.captured_amount
       ]_vars

\* The refund of exactly the amount just captured from zero returned a
\* successful REFUND Transaction.
C10_Witness ==
  /\ call.op = "refund"
  /\ ~call.result.raised
  /\ call.result.txn[1].kind = REFUND
  /\ call.result.txn[1].is_success
  /\ Len(call.before.transactions) = 2
  /\ call.before.transactions[1].kind = AUTH
  /\ call.before.transactions[2].kind = CAPTURE
  /\ call.before.transactions[2].is_success
  /\ call.before.transactions[2].amount = RefundAmount
  /\ call.before.captured_amount = RefundAmount

\* ---------------------------------------------------------------- C11
\* The indices of the transactions of p of that kind with is_success.
SuccessfulIndices(p, kind) ==
  {i \in 1 .. Len(p.transactions) :
     p.transactions[i].kind = kind /\ p.transactions[i].is_success}
\* s is a prefix of t.
IsPrefix(s, t) == Len(s) <= Len(t) /\ SubSeq(t, 1, Len(s)) = s

\* C11 as stated: no AUTH Transaction exists that the lookup of
\* transactions with kind = AUTH and is_success = true cannot find.
C11_Original ==
  \A i \in 1 .. Len(payment.transactions) :
    payment.transactions[i].kind = AUTH =>
      i \in SuccessfulIndices(payment, AUTH)

\* C11 (amended): every AUTH Transaction with is_success = true stays in
\* the payment's transactions as it was created, and from then on the
\* lookup of capture, void and confirm finds a prior auth: such a call
\* never fails with the no-prior-transaction error, and void and confirm
\* on an active payment with a resolvable gateway hand the backend the
\* token of a successful AUTH Transaction.  (authorize also records AUTH
\* Transactions with is_success = false, which the lookup does not find.)
C11_SuccessfulAuthFindable ==
  /\ [][IsPrefix(payment.transactions, payment'.transactions)]_vars
  /\ []((call.op \in {"capture", "void", "confirm"}
           /\ HasSuccessful(call.before, AUTH)) =>
          /\ call.result.exc.msg # NO_PAST_TXN_MSG
          /\ (/\ call.op \in {"void", "confirm"}
              /\ call.before.is_active
              /\ call.before.gateway \in KnownGateways)
             => /\ BackendInvoked
                /\ \E i \in SuccessfulIndices(call.before, AUTH) :
                     call.result.sent_token =
                       Some(call.before.transactions[i].token))

\* confirm found the AUTH Transaction that authorize created, on a payment
\* that also has a failed AUTH Transaction.
C11_Witness ==
  /\ call.op = "confirm"
  /\ BackendInvoked
  /\ HasSuccessful(call.before, AUTH)
  /\ HasFailed(call.before, AUTH)

\* ---------------------------------------------------------------- C12
\* The most recent of the successful transactions of that kind.
MostRecentSuccessful(p, kind) ==
  p.transactions[CHOOSE i \in SuccessfulIndices(p, kind) :
                   \A j \in SuccessfulIndices(p, kind) : j <= i]

\* C12: the token passed to the backend by capture, void, confirm (AUTH)
\* and refund (CAPTURE) is the token of the most recent successful
\* transaction of the required kind.
C12_MostRecentToken ==
  (NeedsPrior /\ BackendInvoked) =>
    call.result.sent_token =
      Some(MostRecentSuccessful(call.before, NeededKind(call.op)).token)

\* ---------------------------------------------------------------- C13
ReadOps == {"create_payment_form", "get_client_token",
            "list_payment_sources", "list_gateways"}
InactiveError == Exc("PaymentError", INACTIVE_MSG)
\* The active-payment guard ran in the last call.
ActiveGuardRan ==
  \E i \in 1 .. Len(call.result.trace) :
    call.result.trace[i] = "require_active_payment"

\* C13 as stated: list_gateways, list_payment_sources, get_client_token
\* and create_payment_form never fail with the inactive-payment error.
C13_Original ==
  call.op \in ReadOps => call.result.exc # InactiveError

\* C13 (amended): the active-payment guard is applied to the six mutating
\* operations and to create_payment_form, which fails with the
\* inactive-payment error on a payment with is_active = false;
\* list_gateways, list_payment_sources and get_client_token do not run the
\* guard and never fail with that error.
C13_GuardOnlyWhereDecorated ==
  /\ call.op \in {"get_client_token", "list_payment_sources",
                  "list_gateways"} =>
       /\ ~ActiveGuardRan
       /\ call.result.exc # InactiveError
  /\ call.op \in Ops \cup {"create_payment_form"} =>
       /\ ActiveGuardRan
       /\ ~call.before.is_active => call.result.exc = InactiveError
  /\ call.op \in ReadOps => payment = call.before

\* get_client_token returned for a payment with is_active = false.
C13_Witness ==
  /\ call.op = "get_client_token"
  /\ ~call.before.is_active
  /\ ~call.result.raised
  /\ call.result.backend = "valid"

\* ---------------------------------------------------------------- C14
\* The last call reached the resolution of the gateway.
ResolvedGateway ==
  \E i \in 1 .. Len(call.result.trace) :
    call.result.trace[i] = "_get_gateway"

\* C14: when the payment's gateway identifier is unset or unrecognized,
\* every operation that resolves the gateway fails with ImproperlyConfigured
\* (not PaymentError), without invoking a backend and without creating a
\* Transaction.
C14_ImproperlyConfigured ==
  (ResolvedGateway /\ call.before.gateway \notin KnownGateways) =>
    /\ call.result.raised
    /\ call.result.exc.type = "ImproperlyConfigured"
    /\ call.result.backend = "none"
    /\ NothingAppended

\* ---------------------------------------------------------------- C15
\* The sum of the amounts of the successful transactions of that kind.
RECURSIVE SumSuccessful(_, _)
SumSuccessful(txns, kind) ==
  IF txns = <<>> THEN 0
  ELSE (IF txns[1].kind = kind /\ txns[1].is_success THEN txns[1].amount
        ELSE 0) + SumSuccessful(Tail(txns), kind)
\* captured_amount reflects the successful CAPTURE (and REFUND)
\* transactions persisted.
CapturedReflected ==
  payment.captured_amount =
    SumSuccessful(payment.transactions, CAPTURE)
      - SumSuccessful(payment.transactions, REFUND)

\* C15: persisting the Transaction and post-processing the Payment are one
\* atomic step: also when a call is interrupted, no state is left in which
\* a successful CAPTURE Transaction is persisted while captured_amount does
\* not reflect it.
C15_NoUnreflectedCapture ==
  pending = None => CapturedReflected

\* ---------------------------------------------------------------- C16
\* Every Transaction the last call recorded has the kind of its operation.
RecordedKindOfOperation ==
  \A i \in 1 .. Len(Appended) : Appended[i].kind = KindOf(call.op)
NeedsNoPrior == call.op \in {"process_payment", "authorize"}
LookupRan ==
  \E i \in 1 .. Len(call.result.trace) :
    call.result.trace[i] = "_get_past_transaction_token"

\* C16 as stated: the Transaction recorded has the kind of the operation
\* table, on success and on failure; process and authorize need no prior
\* token, so on an active payment with an empty history they reach the
\* backend.
C16_Original ==
  Called =>
    /\ RecordedKindOfOperation
    /\ (/\ NeedsNoPrior
        /\ call.before.is_active
        /\ call.before.transactions = <<>>) => BackendInvoked

\* C16 (amended): as stated, but process and authorize reach the backend on
\* an active payment with an empty history when the payment's gateway
\* identifier can be resolved (with an unset or unrecognized one they fail
\* in _get_gateway); they never look up a prior transaction.
C16_KindOfOperation ==
  Called =>
    /\ RecordedKindOfOperation
    /\ NeedsNoPrior =>
         /\ ~LookupRan
         /\ call.result.exc.msg # NO_PAST_TXN_MSG
         /\ (/\ call.before.is_active
             /\ call.before.transactions = <<>>
             /\ call.before.gateway \in KnownGateways)
            => /\ BackendInvoked
               /\ Len(Appended) = 1
               /\ call.result.sent_token = Some(ClientToken)

\* authorize on an active payment without transactions reached the
\* backend, which failed: a failed AUTH Transaction is recorded.
C16_Witness ==
  /\ call.op = "authorize"
  /\ call.before.transactions = <<>>
  /\ BackendFailed
  /\ Len(Appended) = 1
  /\ Appended[1].kind = AUTH
  /\ ~Appended[1].is_success

\* ---------------------------------------------------------------- C17
\* C17: a capture call whose resulting Transaction is unsuccessful (gateway
\* error, or a valid response with success = false) leaves the payment's
\* card metadata unchanged.
C17_CardOnlyOnSuccessfulCapture ==
  (call.op = "capture" /\ call.result.raised) =>
    payment.card = call.before.card

====
